---- MODULE Spec2Model ----
(***************************************************************************)
(* Model of optimize_credit_cards (Credit_Card_Optimizer_Pulp.ipynb).      *)
(*                                                                         *)
(* Units.  Rates are whole percents (0.01 is 1), spending and fees are     *)
(* whole dollars, rewards are whole cents: spending * rate is a number of  *)
(* cents and a fee of f dollars is f * CentsPerDollar cents.  The totals   *)
(* of the program are these numbers divided by 100.                        *)
(*                                                                         *)
(* A card is a number n, standing for the key 'Cardn'.  A dict is a        *)
(* function together with the sequence of its keys in insertion order.     *)
(***************************************************************************)
EXTENDS Integers, Sequences, FiniteSets, TLC

VARIABLES
    cardKeys,            \* keys of `cards`, in iteration order
    cards,               \* cards[card][category] = rate, where the entry exists
    catKeys,             \* keys of `spending`, in iteration order
    spending,            \* spending[category]
    annual_fees,         \* annual_fees[card], where the entry exists
    pc,                  \* position in optimize_credit_cards
    i,                   \* position in the comprehension or loop being run
    card_category_vars,  \* the decision variables created, as <<card, category>>
    rewards,             \* linear expression: variable -> coefficient
    fees,                \* linear expression: variable -> coefficient
    objective,           \* prob.objective
    constraints,         \* prob.constraints, in the order added
    status,              \* pulp.LpStatus[prob.status]
    varValue,            \* varValue[category][card], the solver's values
    result,              \* what the call returned or raised
    call,                \* 1 for the first call, 2 for the second
    first,               \* the result of the first call
    change               \* how the inputs of the second call differ

vars == <<cardKeys, cards, catKeys, spending, annual_fees, pc, i,
          card_category_vars, rewards, fees, objective, constraints,
          status, varValue, result, call, first, change>>

inputs == <<cardKeys, cards, catKeys, spending, annual_fees>>

----------------------------------------------------------------------------
(* Bounds of the inputs.                                                   *)

MaxRate == 1
MaxSpend == 2
MaxRaise == 2

RateChoices == 0..MaxRate
SpendChoices == {k * 100 : k \in 0..MaxSpend}
FeeChoices == {0, 1, 200}
CardKeyChoices == {<<>>, <<1>>, <<1, 2>>}
CatKeyChoices == {<<>>, <<"Groceries">>, <<"Groceries", "Gas">>}

Range(s) == {s[k] : k \in DOMAIN s}

\* the dicts with some of the keys of keySet and values in valueSet
Dicts(keySet, valueSet) == UNION {[D -> valueSet] : D \in SUBSET keySet}

----------------------------------------------------------------------------
(* The example cell.                                                       *)

RefCardKeys == <<1, 2, 3, 4, 5, 6, 7, 8, 9, 10, 11, 12>>
RefCatKeys == <<"Groceries", "Gas", "Dining", "Travel", "Entertainment">>

RefRow(g, s, d, t, e) ==
    [c \in Range(RefCatKeys) |->
        CASE c = "Groceries" -> g
          [] c = "Gas" -> s
          [] c = "Dining" -> d
          [] c = "Travel" -> t
          [] c = "Entertainment" -> e]

RefCards ==
    [n \in Range(RefCardKeys) |->
        CASE n = 1 -> RefRow(3, 2, 1, 4, 2)
          [] n = 2 -> RefRow(2, 3, 2, 1, 3)
          [] n = 3 -> RefRow(1, 4, 3, 2, 2)
          [] n = 4 -> RefRow(4, 1, 2, 3, 4)
          [] n = 5 -> RefRow(5, 1, 1, 2, 3)
          [] n = 6 -> RefRow(2, 5, 2, 3, 1)
          [] n = 7 -> RefRow(3, 3, 4, 1, 2)
          [] n = 8 -> RefRow(2, 2, 3, 4, 5)
          [] n = 9 -> RefRow(1, 3, 5, 2, 2)
          [] n = 10 -> RefRow(4, 2, 1, 5, 1)
          [] n = 11 -> RefRow(3, 1, 2, 3, 4)
          [] n = 12 -> RefRow(2, 2, 4, 1, 3)]

RefSpending == RefRow(500, 300, 200, 4000, 250)

RefAnnualFees ==
    [n \in Range(RefCardKeys) |->
        CASE n = 1 -> 95
          [] n = 2 -> 0
          [] n = 3 -> 85
          [] n = 4 -> 90
          [] n = 5 -> 0
          [] n = 6 -> 70
          [] n = 7 -> 60
          [] n = 8 -> 55
          [] n = 9 -> 95
          [] n = 10 -> 100
          [] n = 11 -> 75
          [] n = 12 -> 80]

----------------------------------------------------------------------------
(* Linear expressions and the solver.                                      *)

EmptyExpr == [p \in {} |-> 0]

\* e + coef * v, as lpSum accumulates a term
AddTerm(e, v, coef) ==
    [p \in DOMAIN e \cup {v} |->
        (IF p \in DOMAIN e THEN e[p] ELSE 0) + (IF p = v THEN coef ELSE 0)]

\* a - b
Minus(a, b) ==
    [p \in DOMAIN a \cup DOMAIN b |->
        (IF p \in DOMAIN a THEN a[p] ELSE 0) - (IF p \in DOMAIN b THEN b[p] ELSE 0)]

RECURSIVE SumOver(_, _)
SumOver(f, S) ==
    IF S = {} THEN 0
    ELSE LET k == CHOOSE j \in S : TRUE IN f[k] + SumOver(f, S \ {k})

\* the part of e's value that the variables of category c contribute
ColValue(e, c, col) ==
    LET ks == {k \in DOMAIN col : <<k, c>> \in DOMAIN e}
    IN SumOver([k \in ks |-> e[<<k, c>>] * col[k]], ks)

Holds(lhs, sense, rhs) ==
    CASE sense = ">=" -> lhs >= rhs
      [] sense = "==" -> lhs = rhs

\* the constraint mentions variables, all of category c
LocalTo(con, c) == DOMAIN con.e # {} /\ \A p \in DOMAIN con.e : p[2] = c

\* f as a table and S as a list of elements: computed once, here, and not
\* again at each use
Table(f) == f @@ EmptyExpr
Listed(S) == {e : e \in S}

RECURSIVE SumTo(_, _, _, _)
\* tab[catSeq[1]][x[catSeq[1]]] + ... + tab[catSeq[n]][x[catSeq[n]]]
SumTo(tab, catSeq, x, n) ==
    IF n = 0 THEN 0
    ELSE tab[catSeq[n]][x[catSeq[n]]] + SumTo(tab, catSeq, x, n - 1)

\* the columns of category c that its own constraints allow
Columns(cardSet, c, cons) ==
    {col \in [cardSet -> {0, 1}] :
        \A k \in DOMAIN cons :
            LocalTo(cons[k], c) =>
                Holds(ColValue(cons[k].e, c, col), cons[k].sense, cons[k].rhs)}

\* [category -> [column -> the part of e's value the column contributes]]
ColumnTable(e, catSeq, used) ==
    Table([c \in Range(catSeq) |-> Table([col \in used |-> ColValue(e, c, col)])])

\* The binary programme with the variables cardSet \X Range(catSeq), the
\* objective obj to maximize and the constraints cons: the set of its
\* optimal solutions, each as [category -> [card -> 0 or 1]]; empty when
\* the programme is infeasible.  A constraint on the variables of a single
\* category is applied to the columns of that category, the others to the
\* whole solution.
OptimalSolutions(cardSet, catSeq, obj, cons) ==
    LET catSet == Range(catSeq)
        n == Len(catSeq)
        global == {k \in DOMAIN cons : \A c \in catSet : ~LocalTo(cons[k], c)}
        cols == Table([c \in catSet |-> Listed(Columns(cardSet, c, cons))])
        used == Listed(UNION {cols[c] : c \in catSet})
        objTab == ColumnTable(obj, catSeq, used)
        conTab == Table([k \in global |-> ColumnTable(cons[k].e, catSeq, used)])
        feasible == Listed({x \in [catSet -> used] :
                        /\ \A c \in catSet : x[c] \in cols[c]
                        /\ \A k \in global :
                              Holds(SumTo(conTab[k], catSeq, x, n),
                                    cons[k].sense, cons[k].rhs)})
        values == {SumTo(objTab, catSeq, x, n) : x \in feasible}
        best == CHOOSE v \in values : \A w \in values : w <= v
    IN IF feasible = {} THEN {}
       ELSE {x \in feasible : SumTo(objTab, catSeq, x, n) = best}

\* pulp.value of a linear expression at the solver's values
Value(e, x) ==
    SumOver([p \in DOMAIN e |-> e[p] * x[p[2]][p[1]]], DOMAIN e)

----------------------------------------------------------------------------
(* optimize_credit_cards                                                   *)

NumCats == Len(catKeys)
NumPairs == Len(cardKeys) * Len(catKeys)
\* the k-th pair of `for card in cards for category in spending`
PairCard(k) == cardKeys[((k - 1) \div NumCats) + 1]
PairCat(k) == catKeys[((k - 1) % NumCats) + 1]

NoResult == [kind |-> "none", chosen_cards |-> <<>>, total_reward |-> 0,
             unique_cards |-> {}, at |-> ""]

\* the exception of a subscription whose key is missing
KeyError(subscription) ==
    [kind |-> "KeyError", chosen_cards |-> <<>>, total_reward |-> 0,
     unique_cards |-> {}, at |-> subscription]

\* slip: the spending of the first category, whatever the category
RewardCoef_firstCategory(card, category) ==
    spending[catKeys[1]] * cards[card][category]

\* spending[category] * cards[card][category], in cents
RewardCoef(card, category) == spending[category] * cards[card][category]

\* annual_fees[card], in cents
FeeCoef(card) == annual_fees[card] * 100

Entry ==
    /\ pc = "entry"
    /\ card_category_vars' = {<<PairCard(k), PairCat(k)>> : k \in 1..NumPairs}
    /\ pc' = "rewards"
    /\ i' = 1
    /\ UNCHANGED <<inputs, rewards, fees, objective, constraints, status,
                   varValue, result, call, first, change>>

RewardTerm ==
    /\ pc = "rewards"
    /\ IF i > NumPairs
       THEN /\ pc' = "fees"
            /\ i' = 1
            /\ UNCHANGED <<rewards, result>>
       ELSE LET card == PairCard(i)
                category == PairCat(i)
            IN IF category \in DOMAIN cards[card]
               THEN /\ rewards' = AddTerm(rewards, <<card, category>>,
                                          RewardCoef(card, category))
                    /\ i' = i + 1
                    /\ UNCHANGED <<pc, result>>
               ELSE /\ pc' = "raised"
                    /\ result' = KeyError("cards[card][category]")
                    /\ UNCHANGED <<rewards, i>>
    /\ UNCHANGED <<inputs, card_category_vars, fees, objective, constraints,
                   status, varValue, call, first, change>>

FeeTerm ==
    /\ pc = "fees"
    /\ IF i > NumPairs
       THEN /\ pc' = "objective"
            /\ UNCHANGED <<fees, result, i>>
       ELSE LET card == PairCard(i)
                category == PairCat(i)
            IN IF card \in DOMAIN annual_fees
               THEN /\ fees' = AddTerm(fees, <<card, category>>, FeeCoef(card))
                    /\ i' = i + 1
                    /\ UNCHANGED <<pc, result>>
               ELSE /\ pc' = "raised"
                    /\ result' = KeyError("annual_fees[card]")
                    /\ UNCHANGED <<fees, i>>
    /\ UNCHANGED <<inputs, card_category_vars, rewards, objective, constraints,
                   status, varValue, call, first, change>>

\* slip: the fees are not subtracted
TotalRewardExpr_noFees == rewards

\* slip: the operands are exchanged
TotalRewardExpr_swapped == Minus(fees, rewards)

\* total_reward = rewards - fees
TotalRewardExpr == Minus(rewards, fees)

\* slip: prob += rewards, the fees being left to the constraint alone
ObjectiveExpr_rewardsOnly == rewards

\* prob += total_reward
ObjectiveExpr == TotalRewardExpr

\* slip: the total must be positive, by a cent at least
NonNegative_strict(e) == [e |-> e, sense |-> ">=", rhs |-> 1]

\* total_reward >= 0
NonNegative(e) == [e |-> e, sense |-> ">=", rhs |-> 0]

Objective ==
    /\ pc = "objective"
    /\ objective' = ObjectiveExpr
    /\ constraints' = <<NonNegative(TotalRewardExpr)>>
    /\ pc' = "categories"
    /\ i' = 1
    /\ UNCHANGED <<inputs, card_category_vars, rewards, fees, status,
                   varValue, result, call, first, change>>

\* slip: >= 1 in place of == 1
OneCard_atLeast(category) ==
    [e |-> [p \in {<<cardKeys[k], category>> : k \in DOMAIN cardKeys} |-> 1],
     sense |-> ">=", rhs |-> 1]

\* lpSum([card_category_vars[card][category] for card in cards]) == 1
OneCard(category) ==
    [e |-> [p \in {<<cardKeys[k], category>> : k \in DOMAIN cardKeys} |-> 1],
     sense |-> "==", rhs |-> 1]

CategoryConstraint ==
    /\ pc = "categories"
    /\ IF i > NumCats
       THEN /\ pc' = "solve"
            /\ UNCHANGED <<constraints, i>>
       ELSE /\ constraints' = Append(constraints, OneCard(catKeys[i]))
            /\ i' = i + 1
            /\ UNCHANGED pc
    /\ UNCHANGED <<inputs, card_category_vars, rewards, fees, objective,
                   status, varValue, result, call, first, change>>

Solve ==
    /\ pc = "solve"
    /\ LET opt == OptimalSolutions(Range(cardKeys), catKeys,
                                   objective, constraints)
       IN IF opt = {}
          THEN /\ status' = "Infeasible"
               /\ UNCHANGED varValue
          ELSE /\ status' = "Optimal"
               /\ \E x \in opt : varValue' = x
    /\ pc' = "decode"
    /\ UNCHANGED <<inputs, i, card_category_vars, rewards, fees, objective,
                   constraints, result, call, first, change>>

\* next(card for card in cards if pulp.value(card_category_vars[card][category]) == 1)
Ones(category) == {k \in DOMAIN cardKeys : varValue[category][cardKeys[k]] = 1}
FirstOne(category) ==
    cardKeys[CHOOSE k \in Ones(category) : \A j \in Ones(category) : k <= j]

Sentinel == [kind |-> "No positive reward solution found",
             chosen_cards |-> <<>>, total_reward |-> 0, unique_cards |-> {},
             at |-> ""]

\* slip: pulp.value(rewards)
ReportedTotal_rewardsOnly == Value(rewards, varValue)

\* pulp.value(prob.objective)
ReportedTotal == Value(objective, varValue)

Decode ==
    /\ pc = "decode"
    /\ IF status = "Optimal"
       THEN IF \E c \in Range(catKeys) : Ones(c) = {}
            THEN /\ pc' = "raised"
                 /\ result' = [NoResult EXCEPT !.kind = "StopIteration",
                                                !.at = "next(...)"]
            ELSE LET chosen_cards == [c \in Range(catKeys) |-> FirstOne(c)]
                 IN /\ pc' = "returned"
                    /\ result' = [kind |-> "success",
                                  chosen_cards |-> chosen_cards,
                                  total_reward |-> ReportedTotal,
                                  unique_cards |-> Range(chosen_cards),
                                  at |-> ""]
       ELSE /\ pc' = "returned"
            /\ result' = Sentinel
    /\ UNCHANGED <<inputs, i, card_category_vars, rewards, fees, objective,
                   constraints, status, varValue, call, first, change>>

----------------------------------------------------------------------------
(* The caller: a first call, then a second one with the same inputs or     *)
(* with one rate raised.                                                   *)

NoChange == [kind |-> "same", card |-> 0, category |-> "", by |-> 0]

Fresh ==
    /\ pc = "entry"
    /\ i = 1
    /\ card_category_vars = {}
    /\ rewards = EmptyExpr
    /\ fees = EmptyExpr
    /\ objective = EmptyExpr
    /\ constraints = <<>>
    /\ status = "Not Solved"
    /\ varValue = <<>>
    /\ result = NoResult

CallAgain ==
    /\ pc = "returned"
    /\ call = 1
    /\ call' = 2
    /\ first' = result
    /\ \/ /\ change' = NoChange
          /\ UNCHANGED cards
       \/ \E card \in Range(cardKeys), by \in 1..MaxRaise :
            \E category \in DOMAIN cards[card] :
                /\ change' = [kind |-> "raised", card |-> card,
                              category |-> category, by |-> by]
                /\ cards' = [cards EXCEPT ![card][category] = @ + by]
    /\ pc' = "entry"
    /\ i' = 1
    /\ card_category_vars' = {}
    /\ rewards' = EmptyExpr
    /\ fees' = EmptyExpr
    /\ objective' = EmptyExpr
    /\ constraints' = <<>>
    /\ status' = "Not Solved"
    /\ varValue' = <<>>
    /\ result' = NoResult
    /\ UNCHANGED <<cardKeys, catKeys, spending, annual_fees>>

----------------------------------------------------------------------------

InputSpace ==
    /\ cardKeys \in CardKeyChoices
    /\ catKeys \in CatKeyChoices
    /\ cards \in [Range(cardKeys) -> Dicts(Range(catKeys), RateChoices)]
    /\ spending \in [Range(catKeys) -> SpendChoices]
    /\ annual_fees \in Dicts(Range(cardKeys), FeeChoices)

Init ==
    /\ InputSpace
    /\ Fresh
    /\ call = 1
    /\ first = NoResult
    /\ change = NoChange

Next ==
    \/ Entry
    \/ RewardTerm
    \/ FeeTerm
    \/ Objective
    \/ CategoryConstraint
    \/ Solve
    \/ Decode
    \/ CallAgain

Spec == Init /\ [][Next]_vars

InitRef ==
    /\ cardKeys = RefCardKeys
    /\ cards = RefCards
    /\ catKeys = RefCatKeys
    /\ spending = RefSpending
    /\ annual_fees = RefAnnualFees
    /\ Fresh
    /\ call = 1
    /\ first = NoResult
    /\ change = NoChange

NextRef ==
    \/ Entry
    \/ RewardTerm
    \/ FeeTerm
    \/ Objective
    \/ CategoryConstraint
    \/ Solve
    \/ Decode

SpecRef == InitRef /\ [][NextRef]_vars

----------------------------------------------------------------------------
(* The properties.  The net reward of an assignment is recomputed here     *)
(* from the inputs alone, without the solver and its variables.            *)

Returned == pc = "returned"
Finished == pc \in {"returned", "raised"}
Success == Returned /\ result.kind = "success"
CardSet == Range(cardKeys)
CatSet == Range(catKeys)

\* the total assignments category -> instrument
Assignments == [CatSet -> CardSet]

\* what an instrument earns in a category, its fee charged for that category
Contribution(card, category) ==
    spending[category] * cards[card][category] - annual_fees[card] * 100

NetReward(a) == SumOver([c \in CatSet |-> Contribution(a[c], c)], CatSet)

\* non-empty catalog and forecast, a fee for every instrument
ValidInput ==
    /\ cardKeys # <<>>
    /\ catKeys # <<>>
    /\ CardSet \subseteq DOMAIN annual_fees

ZeroRates ==
    \A card \in CardSet, c \in CatSet :
        c \in DOMAIN cards[card] /\ cards[card][c] = 0

\* C1: a success result's total reward is the maximum of the net reward
\* over all assignments of one instrument to each category: some assignment
\* has that net reward and none has a larger one.
C1_TotalIsMaximum ==
    Success =>
        /\ \E a \in Assignments : NetReward(a) = result.total_reward
        /\ \A a \in Assignments : NetReward(a) <= result.total_reward

C1_Witness ==
    /\ Success
    /\ Len(cardKeys) = 2
    /\ Len(catKeys) = 2
    /\ \E a, b \in Assignments :
          /\ NetReward(a) < 0
          /\ 0 <= NetReward(b)
          /\ NetReward(b) < result.total_reward

\* C2: in a success result the keys of the assignment are exactly the
\* categories of the forecast, and each maps to an instrument of the
\* catalog, the only one whose decision variable for the category is 1.
C2_OneInstrumentPerCategory ==
    Success =>
        /\ DOMAIN result.chosen_cards = CatSet
        /\ \A c \in CatSet :
              /\ result.chosen_cards[c] \in CardSet
              /\ {k \in CardSet : varValue[c][k] = 1} = {result.chosen_cards[c]}

C2_Witness ==
    /\ Success
    /\ Len(cardKeys) = 2
    /\ Len(catKeys) = 2
    /\ result.chosen_cards["Groceries"] # result.chosen_cards["Gas"]

\* C3: in a success result the reported total equals the net reward
\* recomputed from the decoded assignment alone, the fee of an instrument
\* being charged once for each category assigned to it.
C3_TotalMatchesAssignment ==
    Success => result.total_reward = NetReward(result.chosen_cards)

C3_Witness ==
    /\ Success
    /\ Len(catKeys) = 2
    /\ result.chosen_cards["Groceries"] = result.chosen_cards["Gas"]
    /\ annual_fees[result.chosen_cards["Gas"]] > 0
    /\ result.total_reward > 0

\* one category, one instrument of rate 0.01, spend 100, the given fee
Scenario(fee) ==
    /\ cardKeys = <<1>>
    /\ catKeys = <<"Groceries">>
    /\ "Groceries" \in DOMAIN cards[1]
    /\ cards[1]["Groceries"] = 1
    /\ spending["Groceries"] = 100
    /\ 1 \in DOMAIN annual_fees
    /\ annual_fees[1] = fee

C6_MissingRateIsNoError ==
    (/\ Finished
     /\ CardSet \subseteq DOMAIN annual_fees
     /\ \E card \in CardSet, c \in CatSet : c \notin DOMAIN cards[card])
        => result.kind \in {"success", Sentinel.kind}

\* C7, as stated: an instrument without a fee entry, an empty catalog or
\* an empty forecast makes the call fail with an error: it returns neither
\* a success nor the sentinel.
C7_ConfigurationError ==
    (/\ Finished
     /\ \/ cardKeys = <<>>
        \/ catKeys = <<>>
        \/ ~(CardSet \subseteq DOMAIN annual_fees))
        => result.kind \notin {"success", Sentinel.kind}

\* C8: after one rate is raised, all else equal, the total returned (0 for
\* the sentinel) is not below the total returned before.
C8_Monotone ==
    (Returned /\ call = 2 /\ change.kind = "raised") =>
        result.total_reward >= first.total_reward

C8_Witness ==
    /\ Returned
    /\ call = 2
    /\ change.kind = "raised"
    /\ first = Sentinel
    /\ result.kind = "success"
    /\ result.total_reward > 0

RefChosen == RefRow(5, 2, 2, 8, 5)

C10_Idempotent ==
    (Returned /\ call = 2 /\ change.kind = "same") =>
        /\ result.kind = first.kind
        /\ result.total_reward = first.total_reward
        /\ result.kind = "success" =>
              \A c \in CatSet :
                  Contribution(result.chosen_cards[c], c)
                      = Contribution(first.chosen_cards[c], c)

C10_Witness ==
    /\ Success
    /\ call = 2
    /\ change.kind = "same"
    /\ \E c \in CatSet : result.chosen_cards[c] # first.chosen_cards[c]
====
